---------------------------- MODULE Spec2Model ----------------------------
(***************************************************************************)
(* A model of src/Modulo4/M4Sprites.cpp (MultiSprite): the Sprite class,   *)
(* the part of the OpenGL context state its Draw touches, and main with    *)
(* its render loop.                                                        *)
(*                                                                         *)
(* Numbers.  A float is modelled exactly, in fixed point: the integer n    *)
(* stands for n / Unit.  Unit = 2 * TrigScale = 1200, so that 0.5f, the    *)
(* entries of the trigonometric table and the entries of the orthographic  *)
(* projection of main (2/800, 2/600) are integers, and every product the   *)
(* placement matrix needs is exact (Mul never rounds on the values used).  *)
(* Rounding of 32-bit floats is not modelled.  Angles: Sprite::rotation is *)
(* kept in degrees; glm::radians turns it into eighths of pi (the model    *)
(* only uses multiples of 45 degrees) and Cos/Sin are tabulated on those.  *)
(*                                                                         *)
(* Two specifications.  Spec is main: initialisation with each of its      *)
(* failures, the resources (shader program, quad, two textures, whatever   *)
(* the compiler, the linker and the image decoder answer), the two         *)
(* sprites and the render loop under every sequence of key events.         *)
(* SpecSprite is one Sprite under every sequence of SetPosition, SetScale, *)
(* SetRotation and Draw calls, with arguments from PosArgs, ScaleArgs and  *)
(* RotArgs.                                                                *)
(*                                                                         *)
(* OpenGL calls follow the OpenGL 3.3 core specification where the source  *)
(* relies on it: a program whose link failed cannot be made current        *)
(* (glUseProgram: INVALID_OPERATION, state unchanged), it has no uniform   *)
(* locations (glGetUniformLocation: -1), and glUniform* ignores -1.        *)
(***************************************************************************)
EXTENDS Integers, Sequences, FiniteSets, TLC

\* ----------------------------------------------------------------- bounds
\* Number of extra argument values (beyond the literals of main) that the
\* setters are called with: see PosArgs, ScaleArgs, RotArgs.
MaxArg == 1
\* The quad is shaded on a FragGrid x FragGrid grid of fragments.
FragGrid == 2
\* Decoded images are 1..MaxDim texels wide and high.
MaxDim == 2
\* glfwPollEvents delivers at most MaxEvents key events per call.
MaxEvents == 1
\* Completed iterations of the render loop are counted up to MaxFrames (the
\* loop itself is not bounded).
MaxFrames == 2

\* ------------------------------------------------------------ fixed point
TrigScale == 6 * 100
Unit == 2 * TrigScale
F(n) == n * Unit
Half == Unit \div 2
Mul(a, b) == (a * b) \div Unit
Div(a, b) == (a * Unit) \div b

\* glm::radians: degrees -> radians, here in units of pi/4.
radians(deg) == deg \div 45

\* cos and sin of k * pi/4, in fixed point (cos(pi/4) = 0.7071, cut to
\* a multiple of 1 / TrigScale).
Diag == 2 * ((7071 * TrigScale) \div 10000)
Cos(k) ==
    CASE k % 8 = 0 -> Unit
      [] k % 8 = 1 -> Diag
      [] k % 8 = 2 -> 0
      [] k % 8 = 3 -> -Diag
      [] k % 8 = 4 -> -Unit
      [] k % 8 = 5 -> -Diag
      [] k % 8 = 6 -> 0
      [] k % 8 = 7 -> Diag
Sin(k) == Cos(k + 6)

\* ------------------------------------------------- glm vectors and matrices
\* A vec4 is a 4-tuple; a mat4 is a 4-tuple of columns (m[col][row]), as glm.
VAdd(a, b) == <<a[1] + b[1], a[2] + b[2], a[3] + b[3], a[4] + b[4]>>
VMul(a, k) == <<Mul(a[1], k), Mul(a[2], k), Mul(a[3], k), Mul(a[4], k)>>

\* glm::mat4(1.0f)
Identity ==
    << <<Unit, 0, 0, 0>>, <<0, Unit, 0, 0>>, <<0, 0, Unit, 0>>, <<0, 0, 0, Unit>> >>

\* glm::translate(m, v): Result[3] = m[0]*v[0] + m[1]*v[1] + m[2]*v[2] + m[3]
translate(m, v) ==
    << m[1], m[2], m[3],
       VAdd(VAdd(VAdd(VMul(m[1], v[1]), VMul(m[2], v[2])), VMul(m[3], v[3])), m[4]) >>

\* glm::rotate(m, angle, vec3(0,0,1)): the rotation matrix about Z has
\* Rotate[0] = (c, s, 0), Rotate[1] = (-s, c, 0), Rotate[2] = (0, 0, 1);
\* Result[i] = m[0]*Rotate[i][0] + m[1]*Rotate[i][1] + m[2]*Rotate[i][2].
rotate(m, angle) ==
    LET c == Cos(angle)
        s == Sin(angle)
    IN  << VAdd(VMul(m[1], c), VMul(m[2], s)),
           VAdd(VMul(m[1], -s), VMul(m[2], c)),
           m[3],
           m[4] >>

\* glm::scale(m, v): Result[i] = m[i] * v[i], Result[3] = m[3]
scale(m, v) == << VMul(m[1], v[1]), VMul(m[2], v[2]), VMul(m[3], v[3]), m[4] >>

\* mat4 * vec4
MatVec(m, v) ==
    VAdd(VAdd(VAdd(VMul(m[1], v[1]), VMul(m[2], v[2])), VMul(m[3], v[3])), VMul(m[4], v[4]))

\* ------------------------------------------------------------ the unit quad
\* CreateQuadVAO's quadVertices: x, y, z, s, t per vertex, in buffer order.
TL == 1
BL == 2
TR == 3
BR == 4
quadVertices ==
    << [pos |-> <<-Half,  Half, 0>>, tex |-> <<0,    Unit>>],   \* topo-esquerda
       [pos |-> <<-Half, -Half, 0>>, tex |-> <<0,    0>>],      \* baixo-esquerda
       [pos |-> << Half,  Half, 0>>, tex |-> <<Unit, Unit>>],   \* topo-direita
       [pos |-> << Half, -Half, 0>>, tex |-> <<Unit, 0>>] >>    \* baixo-direita

\* ------------------------------------------------------------------ state
VARIABLES
    sprites,     \* std::vector<Sprite>: the Sprite objects, in insertion order
    gl,          \* the OpenGL context state the program reads and writes
    drawLog,     \* the draw calls issued (glDrawArrays), with what they rendered
    lastCall,    \* the Sprite member function called last, with its arguments
    prevDraw,    \* the attributes the sprite had at its previous Draw
    pc,          \* main: the statement it is at
    returnValue, \* main: <<>> while it runs, then <<its return value>>
    stderr,      \* the diagnostics written to cerr, in order
    glfw,        \* the windowing library: initialised, the window, its close flag
    locals,      \* main's locals: shaderProgram, quadVAO, tex1, tex2, projection
    frame        \* what the render loop did in its current iteration, and how many
                 \* iterations it completed

vars == <<sprites, gl, drawLog, lastCall, prevDraw, pc, returnValue, stderr,
          glfw, locals, frame>>
mainVars == <<pc, returnValue, stderr, glfw, locals, frame>>

\* ---------------------------------------------------------- OpenGL context
NoLocation == "-1"
NoImage == [width |-> 0, height |-> 0, data |-> <<>>]
ZeroMat == << <<0, 0, 0, 0>>, <<0, 0, 0, 0>>, <<0, 0, 0, 0>>, <<0, 0, 0, 0>> >>
DefaultUniforms == [uModel |-> ZeroMat, uProjection |-> ZeroMat, uTexture |-> 0]
TextureUnits == {0, 1}

\* The context right after it is made current: nothing bound, no objects.
InitialContext ==
    [ program       |-> 0,                         \* glUseProgram
      activeTexture |-> 0,                         \* glActiveTexture (GL_TEXTURE0 + n)
      texBinding    |-> [u \in TextureUnits |-> 0],\* GL_TEXTURE_2D binding of each unit
      vertexArray   |-> 0,                         \* glBindVertexArray
      programs      |-> {},                        \* program objects
      linked        |-> {},                        \* those whose last link succeeded
      uniforms      |-> <<>>,                      \* program -> its uniform values
      textures      |-> <<>>,                      \* texture object -> its image
      vaos          |-> <<>>,                      \* vertex array -> its vertices
      deleted       |-> {},                        \* objects deleted: <<kind, name>>
      viewport      |-> <<0, 0, 0, 0>>,            \* glViewport
      blend         |-> FALSE,                     \* glEnable(GL_BLEND)
      error         |-> "GL_NO_ERROR" ]

\* glUseProgram: a program that was not linked successfully cannot be made
\* current: GL_INVALID_OPERATION, and the current program is left as it was
\* (OpenGL 3.3 core, 2.11.3).  CreateShaderProgram returns the program object
\* whether or not its link succeeded.
glUseProgram(g, program) ==
    IF program = 0 \/ program \in g.linked
    THEN [g EXCEPT !.program = program]
    ELSE [g EXCEPT !.error = "GL_INVALID_OPERATION"]

\* glGetUniformLocation: -1 unless the program is linked and has the uniform.
glGetUniformLocation(g, program, name) ==
    IF program \in g.linked /\ name \in DOMAIN DefaultUniforms
    THEN name ELSE NoLocation

\* glUniformMatrix4fv / glUniform1i: location -1 is silently ignored; with no
\* current program the call is a GL_INVALID_OPERATION.
glUniform(g, location, value) ==
    IF location = NoLocation THEN g
    ELSE IF g.program = 0 THEN [g EXCEPT !.error = "GL_INVALID_OPERATION"]
    ELSE [g EXCEPT !.uniforms[g.program][location] = value]

glActiveTexture(g, unit) == [g EXCEPT !.activeTexture = unit]
glBindTexture(g, texture) == [g EXCEPT !.texBinding[g.activeTexture] = texture]
glBindVertexArray(g, array) == [g EXCEPT !.vertexArray = array]

\* ---------------------------------------------------------- shader stages
\* Mutant of vertexShader: the texture coordinate passed on unflipped.
vertexShaderNoFlip(u, v) ==
    LET world == MatVec(u.uModel, <<v.pos[1], v.pos[2], v.pos[3], Unit>>)
    IN  [ world       |-> world,
          gl_Position |-> MatVec(u.uProjection, world),
          TexCoord    |-> <<v.tex[1], v.tex[2]>> ]

\* vertexShaderSource: gl_Position = uProjection * uModel * vec4(aPos, 1.0);
\* TexCoord = vec2(aTexCoord.x, 1.0 - aTexCoord.y).  world is the
\* intermediate uModel * vec4(aPos, 1.0).
vertexShader(u, v) ==
    LET world == MatVec(u.uModel, <<v.pos[1], v.pos[2], v.pos[3], Unit>>)
    IN  [ world       |-> world,
          gl_Position |-> MatVec(u.uProjection, world),
          TexCoord    |-> <<v.tex[1], Unit - v.tex[2]>> ]

\* texture(uTexture, coord): the texel under coord, with GL_REPEAT wrapping.
\* Row j of the texture (t from j/h) is row j of the uploaded data.
texture(img, coord) ==
    IF img.width = 0 \/ img.height = 0 THEN "black"
    ELSE LET i == ((coord[1] * img.width) \div Unit) % img.width
             j == ((coord[2] * img.height) \div Unit) % img.height
         IN  img.data[j + 1][i + 1]

\* The attributes of fragment (a, b) of the quad drawn as a 4-vertex triangle
\* strip, a counted from the side of the BL-TL edge and b from the BL-BR
\* edge: rasterization interpolates the vertex stage's outputs linearly, here
\* at the centre of cell (a, b) of the grid.
Lerp(o, da, db, a, b) ==
    o + ((da - o) * (2 * a + 1)) \div (2 * FragGrid)
      + ((db - o) * (2 * b + 1)) \div (2 * FragGrid)
Fragment(vs, img, a, b) ==
    LET coord == << Lerp(vs[BL].TexCoord[1], vs[BR].TexCoord[1], vs[TL].TexCoord[1], a, b),
                    Lerp(vs[BL].TexCoord[2], vs[BR].TexCoord[2], vs[TL].TexCoord[2], a, b) >>
    IN  [ world     |-> << Lerp(vs[BL].world[1], vs[BR].world[1], vs[TL].world[1], a, b),
                           Lerp(vs[BL].world[2], vs[BR].world[2], vs[TL].world[2], a, b) >>,
          TexCoord  |-> coord,
          \* fragmentShaderSource: FragColor = texture(uTexture, TexCoord)
          FragColor |-> texture(img, coord) ]

\* glDrawArrays(mode, first, count): runs the current program on the vertices
\* of the bound vertex array.  The record is the draw call as issued, with
\* the bindings it saw; with no current program or no vertex array bound,
\* nothing defined is rendered.
glDrawArrays(g, mode, first, count) ==
    LET ok    == g.program # 0 /\ g.vertexArray # 0
        u     == IF g.program # 0 THEN g.uniforms[g.program] ELSE DefaultUniforms
        tex   == g.texBinding[u.uTexture]
        img   == IF tex # 0 THEN g.textures[tex] ELSE NoImage
        vs    == IF ok
                 THEN [i \in 1..count |-> vertexShader(u, g.vaos[g.vertexArray][first + i])]
                 ELSE <<>>
    IN  [ mode        |-> mode,
          first       |-> first,
          count       |-> count,
          program     |-> g.program,
          vertexArray |-> g.vertexArray,
          activeTexture |-> g.activeTexture,
          texture     |-> g.texBinding[g.activeTexture],
          uModel      |-> u.uModel,
          uProjection |-> u.uProjection,
          vertices    |-> vs,
          fragments   |-> IF ok /\ count = 4
                          THEN [a \in 0..(FragGrid - 1) |->
                                   [b \in 0..(FragGrid - 1) |-> Fragment(vs, img, a, b)]]
                          ELSE <<>> ]

\* ------------------------------------------------------------ class Sprite
\* Sprite::Sprite(shaderID, quadVAO, textureID)
NewSprite(shaderID, quadVAO, textureID) ==
    [ shaderID  |-> shaderID,
      VAO       |-> quadVAO,
      textureID |-> textureID,
      position  |-> <<F(0), F(0)>>,
      scale     |-> <<F(100), F(100)>>,
      rotation  |-> 0 ]

\* Mutant of SetScale: negative sizes clamped to 0.
SetScaleClamped(s, widthPx, heightPx) ==
    [s EXCEPT !.scale = <<IF widthPx < 0 THEN 0 ELSE widthPx,
                          IF heightPx < 0 THEN 0 ELSE heightPx>>]
\* Mutant of SetRotation: the angle converted when stored, not when drawn.
SetRotationRadians(s, angleDegrees) == [s EXCEPT !.rotation = radians(angleDegrees)]

SetPosition(s, x, y) == [s EXCEPT !.position = <<x, y>>]
SetScale(s, widthPx, heightPx) == [s EXCEPT !.scale = <<widthPx, heightPx>>]
SetRotation(s, angleDegrees) == [s EXCEPT !.rotation = angleDegrees]

\* Mutant of PlacementMatrix: the rotation applied before the translation
\* to position, so that the position is rotated too.
PlacementMatrixRotatesFirst(s) ==
    LET m0 == Identity
        m1 == translate(m0, <<Mul(Half, s.scale[1]), Mul(Half, s.scale[2]), 0>>)
        m2 == rotate(m1, radians(s.rotation))
        m3 == translate(m2, <<s.position[1], s.position[2], 0>>)
        m4 == translate(m3, <<Mul(-Half, s.scale[1]), Mul(-Half, s.scale[2]), 0>>)
    IN  scale(m4, <<s.scale[1], s.scale[2], Unit>>)

\* Sprite::Draw, step 1: the model (placement) matrix.
PlacementMatrix(s) ==
    LET m0 == Identity
        m1 == translate(m0, <<s.position[1], s.position[2], 0>>)
        m2 == translate(m1, <<Mul(Half, s.scale[1]), Mul(Half, s.scale[2]), 0>>)
        m3 == rotate(m2, radians(s.rotation))
        m4 == translate(m3, <<Mul(-Half, s.scale[1]), Mul(-Half, s.scale[2]), 0>>)
    IN  scale(m4, <<s.scale[1], s.scale[2], Unit>>)

\* Mutant of Draw: the texture is not bound (step 3 without glBindTexture).
DrawWithoutBindTexture(s, projection, g) ==
    LET model    == PlacementMatrix(s)
        g1       == glUseProgram(g, s.shaderID)
        modelLoc == glGetUniformLocation(g1, s.shaderID, "uModel")
        projLoc  == glGetUniformLocation(g1, s.shaderID, "uProjection")
        g2       == glUniform(g1, modelLoc, model)
        g3       == glUniform(g2, projLoc, projection)
        g4       == glActiveTexture(g3, 0)
        g6       == glUniform(g4, glGetUniformLocation(g4, s.shaderID, "uTexture"), 0)
        g7       == glBindVertexArray(g6, s.VAO)
    IN  [ call |-> glDrawArrays(g7, "GL_TRIANGLE_STRIP", 0, 4),
          gl   |-> glBindVertexArray(g7, 0) ]

\* Sprite::Draw(projection), steps 2 to 4, on the context g: the context it
\* leaves and the draw call it issued.
Draw(s, projection, g) ==
    LET model    == PlacementMatrix(s)
        g1       == glUseProgram(g, s.shaderID)
        modelLoc == glGetUniformLocation(g1, s.shaderID, "uModel")
        projLoc  == glGetUniformLocation(g1, s.shaderID, "uProjection")
        g2       == glUniform(g1, modelLoc, model)
        g3       == glUniform(g2, projLoc, projection)
        g4       == glActiveTexture(g3, 0)
        g5       == glBindTexture(g4, s.textureID)
        g6       == glUniform(g5, glGetUniformLocation(g5, s.shaderID, "uTexture"), 0)
        g7       == glBindVertexArray(g6, s.VAO)
    IN  [ call |-> glDrawArrays(g7, "GL_TRIANGLE_STRIP", 0, 4),
          gl   |-> glBindVertexArray(g7, 0) ]

\* -------------------------------------------------- resources (sections 2-4)
SCREEN_WIDTH == 800
SCREEN_HEIGHT == 600

\* CreateShaderProgram: compiles both shaders and links them; every failure
\* only writes a diagnostic, and the program object is returned in any case.
\* vsOK, fsOK: GL_COMPILE_STATUS of each shader; linkOK: whether the link of
\* two compiled shaders succeeds (with a shader that failed to compile the
\* link fails).
CreateShaderProgram(g, vsOK, fsOK, linkOK) ==
    LET shaderProgram == Cardinality(g.programs) + 1
        success       == vsOK /\ fsOK /\ linkOK
    IN  [ gl  |-> [g EXCEPT
                     !.programs = @ \cup {shaderProgram},
                     !.linked   = IF success THEN @ \cup {shaderProgram} ELSE @,
                     !.uniforms = [q \in g.programs \cup {shaderProgram} |->
                                     IF q = shaderProgram THEN DefaultUniforms
                                     ELSE g.uniforms[q]]],
          ret |-> shaderProgram,
          err |-> (IF vsOK THEN <<>> ELSE <<"[ERRO] Vertex Shader compilation failed">>)
                  \o (IF fsOK THEN <<>> ELSE <<"[ERRO] Fragment Shader compilation failed">>)
                  \o (IF success THEN <<>> ELSE <<"[ERRO] Shader Program link failed">>) ]

\* stbi_load: NoImage (a null pointer) on failure, else width x height pixels,
\* row 0 being the top row of the picture and column 0 its left column (no
\* vertical flip is requested).  A pixel is named by its <<row, column>>.
StbImage(w, h) ==
    [ width  |-> w,
      height |-> h,
      data   |-> [r \in 1..h |-> [c \in 1..w |-> <<r - 1, c - 1>>]] ]
StbOutcomes == {NoImage} \cup {StbImage(w, h) : w \in 1..MaxDim, h \in 1..MaxDim}

\* loadTexture(filePath), data being what stbi_load returned for the file.
loadTexture(g, data) ==
    LET textureID == Len(g.textures) + 1
        g1 == [g EXCEPT !.textures = Append(@, NoImage)]      \* glGenTextures
        g2 == glBindTexture(g1, textureID)
        g3 == IF data # NoImage
              THEN [g2 EXCEPT !.textures[g2.texBinding[g2.activeTexture]] = data]
              ELSE g2                                         \* glTexImage2D
    IN  [ gl  |-> glBindTexture(g3, 0),
          ret |-> textureID,
          err |-> IF data # NoImage THEN <<>>
                  ELSE <<"[ERRO] Falha ao carregar textura">> ]

\* CreateQuadVAO: a vertex array holding quadVertices; leaves nothing bound.
CreateQuadVAO(g) ==
    LET VAO == Len(g.vaos) + 1
        g1  == [g EXCEPT !.vaos = Append(@, <<>>)]            \* glGenVertexArrays
        g2  == glBindVertexArray(g1, VAO)
        g3  == [g2 EXCEPT !.vaos[g2.vertexArray] = quadVertices] \* glBufferData + pointers
    IN  [ gl |-> glBindVertexArray(g3, 0), ret |-> VAO ]

\* glm::ortho(left, right, bottom, top, zNear, zFar)
ortho(l, r, b, t, n, f) ==
    << <<Div(F(2), r - l), 0, 0, 0>>,
       <<0, Div(F(2), t - b), 0, 0>>,
       <<0, 0, -Div(F(2), f - n), 0>>,
       <<-Div(r + l, r - l), -Div(t + b, t - b), -Div(f + n, f - n), Unit>> >>

\* main 6.8: the projection
Projection == ortho(F(0), F(SCREEN_WIDTH), F(0), F(SCREEN_HEIGHT), F(-1), F(1))

\* ------------------------------------------ a Sprite under arbitrary calls
\* The arguments the setters are called with: the literals of main and
\* MaxArg more of each kind, negative ones included.
PosArgs ==
    {<<F(50), F(50)>>, <<F(300), F(200)>>}
        \cup {<<F(-25 * k), F(10 * k)>> : k \in 0..MaxArg}
ScaleArgs ==
    {<<F(128), F(128)>>, <<F(200), F(100)>>}
        \cup {<<F(100 - 120 * k), F(100 + 20 * k)>> : k \in 0..MaxArg}
RotArgs == {0, 45} \cup {180 - 270 * k : k \in 0..MaxArg}

InitialGlfw ==
    [ initialized |-> FALSE,      \* glfwInit succeeded
      window      |-> FALSE,      \* the window exists and its context is current
      keyCallback |-> FALSE,      \* key_callback is installed on the window
      shouldClose |-> FALSE,      \* the window's close flag
      failure     |-> "",         \* the initialisation call that failed, if any
      terminated  |-> FALSE ]     \* glfwTerminate was called
InitialLocals ==
    [ shaderProgram |-> 0, quadVAO |-> 0, tex1 |-> 0, tex2 |-> 0,
      projection |-> ZeroMat, i |-> 0 ]
NoFrame == [ops |-> <<>>, events |-> <<>>, count |-> 0]

NoDraw == [drawn |-> FALSE, position |-> <<0, 0>>, scale |-> <<0, 0>>,
           rotation |-> 0, moved |-> FALSE]

\* One Sprite, built as main builds its first: a linked program, the quad and
\* a loaded texture, in a context with nothing bound.
InitSprite ==
    LET p == CreateShaderProgram(InitialContext, TRUE, TRUE, TRUE)
        q == CreateQuadVAO(p.gl)
        t == loadTexture(q.gl, StbImage(MaxDim, MaxDim))
    IN  /\ sprites = <<NewSprite(p.ret, q.ret, t.ret)>>
        /\ gl = t.gl
        /\ drawLog = <<>>
        /\ lastCall = [op |-> "Sprite", args |-> <<p.ret, q.ret, t.ret>>]
        /\ prevDraw = NoDraw
        /\ pc = "-"
        /\ returnValue = <<>>
        /\ stderr = <<>>
        /\ glfw = [InitialGlfw EXCEPT !.initialized = TRUE, !.window = TRUE]
        /\ locals = [InitialLocals EXCEPT !.shaderProgram = p.ret, !.quadVAO = q.ret,
                                          !.tex1 = t.ret, !.projection = Projection]
        /\ frame = NoFrame

CallSetPosition ==
    \E a \in PosArgs :
        /\ sprites' = [sprites EXCEPT ![1] = SetPosition(@, a[1], a[2])]
        /\ lastCall' = [op |-> "SetPosition", args |-> a]
        /\ UNCHANGED <<gl, drawLog, prevDraw, mainVars>>

CallSetScale ==
    \E a \in ScaleArgs :
        /\ sprites' = [sprites EXCEPT ![1] = SetScale(@, a[1], a[2])]
        /\ lastCall' = [op |-> "SetScale", args |-> a]
        /\ UNCHANGED <<gl, drawLog, prevDraw, mainVars>>

CallSetRotation ==
    \E a \in RotArgs :
        /\ sprites' = [sprites EXCEPT ![1] = SetRotation(@, a)]
        /\ lastCall' = [op |-> "SetRotation", args |-> <<a>>]
        /\ UNCHANGED <<gl, drawLog, prevDraw, mainVars>>

\* Draw(projection).  drawLog keeps the last draw call only; prevDraw notes
\* the attributes it was issued with, and whether it followed a Draw of the
\* same scale and rotation at another position.
CallDraw ==
    LET s == sprites[1]
        d == Draw(s, locals.projection, gl)
    IN  /\ gl' = d.gl
        /\ drawLog' = <<d.call>>
        /\ lastCall' = [op |-> "Draw", args |-> <<>>]
        /\ prevDraw' = [drawn |-> TRUE, position |-> s.position, scale |-> s.scale,
                        rotation |-> s.rotation,
                        moved |-> /\ prevDraw.drawn
                                  /\ prevDraw.scale = s.scale
                                  /\ prevDraw.rotation = s.rotation
                                  /\ prevDraw.position # s.position]
        /\ UNCHANGED <<sprites, mainVars>>

NextSprite == CallSetPosition \/ CallSetScale \/ CallSetRotation \/ CallDraw

SpecSprite == InitSprite /\ [][NextSprite]_vars

\* ------------------------------------------------ claims about a Sprite
\* The last draw call, the attributes it was issued with, and where the
\* vertex stage put quad vertex i (uModel * aPos, before the projection).
Drawn == prevDraw.drawn /\ drawLog # <<>> /\ drawLog[1].vertices # <<>>
Corner(i) == <<drawLog[1].vertices[i].world[1], drawLog[1].vertices[i].world[2]>>
\* Where the placement matrix of a sprite with attributes a puts vertex i.
CornerOf(a, i) ==
    LET w == MatVec(PlacementMatrix(a),
                    <<quadVertices[i].pos[1], quadVertices[i].pos[2],
                      quadVertices[i].pos[3], Unit>>)
    IN  <<w[1], w[2]>>
Opposite(i) == CASE i = TL -> BR [] i = BR -> TL [] i = TR -> BL [] i = BL -> TR
NonNegative(v) == v[1] >= 0 /\ v[2] >= 0

\* C1: at rotation 0 the quad's corners are drawn on the corners of the
\* rectangle [P.x, P.x+S.x] x [P.y, P.y+S.y]: bottom-left on P, top-left on
\* (P.x, P.y+S.y), bottom-right on (P.x+S.x, P.y), top-right on P+S.
C1_RectangleAtRotation0 ==
    (Drawn /\ prevDraw.rotation = 0) =>
        LET P == prevDraw.position
            S == prevDraw.scale
        IN  /\ Corner(BL) = <<P[1], P[2]>>
            /\ Corner(TL) = <<P[1], P[2] + S[2]>>
            /\ Corner(BR) = <<P[1] + S[1], P[2]>>
            /\ Corner(TR) = <<P[1] + S[1], P[2] + S[2]>>

\* What the code draws at rotation 0: the rectangle centred on P.
C1_CodeDrawsCentredOnP ==
    (Drawn /\ prevDraw.rotation = 0) =>
        LET P == prevDraw.position
            S == prevDraw.scale
        IN  \A i \in {TL, BL, TR, BR} :
                Corner(i) = << P[1] + Mul(quadVertices[i].pos[1], S[1]),
                               P[2] + Mul(quadVertices[i].pos[2], S[2]) >>

\* C2: drawn at rotation 180, every corner lies where the diagonally opposite
\* corner lies at rotation 0 (the rotation pivots about the sprite's centre).
C2_HalfTurnSwapsOppositeCorners ==
    (Drawn /\ prevDraw.rotation = 180) =>
        \A i \in {TL, BL, TR, BR} :
            Corner(i) = CornerOf([sprites[1] EXCEPT !.position = prevDraw.position,
                                                     !.scale = prevDraw.scale,
                                                     !.rotation = 0], Opposite(i))

\* C3: whatever the rotation, the mean of the four drawn corners is
\* P + 0.5 * S (stated on the sum: four times the mean).
C3_CentroidIsCentre ==
    Drawn =>
        LET P == prevDraw.position
            S == prevDraw.scale
        IN  /\ Corner(TL)[1] + Corner(BL)[1] + Corner(TR)[1] + Corner(BR)[1]
                   = 4 * P[1] + 2 * S[1]
            /\ Corner(TL)[2] + Corner(BL)[2] + Corner(TR)[2] + Corner(BR)[2]
                   = 4 * P[2] + 2 * S[2]

\* C4: a Draw that follows a Draw with the same scale and rotation puts every
\* corner where the earlier one put it, moved by the difference of the two
\* positions.
C4_TranslationMovesCorners ==
    [][ ( /\ Drawn
          /\ lastCall'.op = "Draw"
          /\ prevDraw'.scale = prevDraw.scale
          /\ prevDraw'.rotation = prevDraw.rotation )
        => \A i \in {TL, BL, TR, BR} :
              /\ drawLog'[1].vertices[i].world[1]
                   = Corner(i)[1] + (prevDraw'.position[1] - prevDraw.position[1])
              /\ drawLog'[1].vertices[i].world[2]
                   = Corner(i)[2] + (prevDraw'.position[2] - prevDraw.position[2]) ]_vars
C4_Witness ==
    /\ Drawn
    /\ prevDraw.moved
    /\ prevDraw.rotation = 45
    /\ prevDraw.position = <<F(300), F(200)>>

\* C5 as stated: the scale of a Sprite never has a negative component.
C5_ScaleNeverNegative == NonNegative(sprites[1].scale)

\* C5 as amended: the scale is non-negative at construction, SetScale stores
\* its arguments as given, negative or not, and no other call changes it: a
\* negative component only ever comes from a SetScale call given one.
C5_ScaleNegativeOnlyBySetScale ==
    /\ [](lastCall.op = "Sprite" => NonNegative(sprites[1].scale))
    /\ [][ /\ lastCall'.op = "SetScale" => sprites'[1].scale = lastCall'.args
           /\ lastCall'.op # "SetScale" => sprites'[1].scale = sprites[1].scale
           /\ (NonNegative(sprites[1].scale) /\ ~NonNegative(sprites'[1].scale))
                 => (lastCall'.op = "SetScale" /\ ~NonNegative(lastCall'.args)) ]_vars
C5_Witness ==
    /\ lastCall.op = "SetScale"
    /\ ~NonNegative(lastCall.args)
    /\ sprites[1].scale[1] < 0

\* C6: a new Sprite has position (0,0), scale (100,100), rotation 0; each
\* setter stores its argument as given and changes nothing else of the
\* Sprite; Draw changes nothing of it.
C6_SettersOverwriteOnlyTheirAttribute ==
    /\ [](lastCall.op = "Sprite" =>
             /\ sprites[1].position = <<F(0), F(0)>>
             /\ sprites[1].scale = <<F(100), F(100)>>
             /\ sprites[1].rotation = 0
             /\ <<sprites[1].shaderID, sprites[1].VAO, sprites[1].textureID>>
                    = lastCall.args)
    /\ [][ /\ lastCall'.op = "SetPosition" =>
                sprites'[1] = [sprites[1] EXCEPT !.position = lastCall'.args]
           /\ lastCall'.op = "SetScale" =>
                sprites'[1] = [sprites[1] EXCEPT !.scale = lastCall'.args]
           /\ lastCall'.op = "SetRotation" =>
                sprites'[1] = [sprites[1] EXCEPT !.rotation = lastCall'.args[1]]
           /\ lastCall'.op = "Draw" => sprites' = sprites
           /\ Len(sprites') = 1 ]_vars
C6_Witness ==
    /\ lastCall.op = "SetRotation"
    /\ sprites[1].rotation = 45
    /\ sprites[1].position = <<F(300), F(200)>>
    /\ sprites[1].scale = <<F(200), F(100)>>
    /\ Drawn

\* ------------------------------------------------------------------- main
\* Mutant of key_callback: any ESC event closes, its release included.
key_callbackAnyAction(shouldClose, key, action) ==
    IF key = "GLFW_KEY_ESCAPE" THEN TRUE ELSE shouldClose

\* key_callback(window, key, scancode, action, mods): the close flag after it.
key_callback(shouldClose, key, action) ==
    IF key = "GLFW_KEY_ESCAPE" /\ action = "GLFW_PRESS" THEN TRUE ELSE shouldClose

\* The key events glfwPollEvents may deliver, and the flag after a sequence.
KeyEvents ==
    [ key    : {"GLFW_KEY_ESCAPE", "GLFW_KEY_SPACE"},
      action : {"GLFW_PRESS", "GLFW_RELEASE", "GLFW_REPEAT"} ]
EventSeqs == UNION {[1..n -> KeyEvents] : n \in 0..MaxEvents}
RECURSIVE Deliver(_, _)
Deliver(shouldClose, events) ==
    IF events = <<>> THEN shouldClose
    ELSE Deliver(key_callback(shouldClose, Head(events).key, Head(events).action),
                 Tail(events))

Op(name, sprite) == [op |-> name, sprite |-> sprite]
Min(a, b) == IF a < b THEN a ELSE b

InitMain ==
    /\ sprites = <<>>
    /\ gl = InitialContext
    /\ drawLog = <<>>
    /\ lastCall = [op |-> "", args |-> <<>>]
    /\ prevDraw = NoDraw
    /\ pc = "glfwInit"
    /\ returnValue = <<>>
    /\ stderr = <<>>
    /\ glfw = InitialGlfw
    /\ locals = InitialLocals
    /\ frame = NoFrame

\* 6.1: if (!glfwInit()) { cerr << ...; return -1; }
GlfwInit ==
    /\ pc = "glfwInit"
    /\ \E ok \in BOOLEAN :
          IF ok
          THEN /\ glfw' = [glfw EXCEPT !.initialized = TRUE]
               /\ pc' = "glfwCreateWindow"
               /\ UNCHANGED <<stderr, returnValue>>
          ELSE /\ glfw' = [glfw EXCEPT !.failure = "glfwInit"]
               /\ stderr' = Append(stderr, "[ERRO] Falha ao inicializar GLFW")
               /\ returnValue' = <<-1>>
               /\ pc' = "returned"
    /\ UNCHANGED <<sprites, gl, drawLog, lastCall, prevDraw, locals, frame>>

\* 6.1: glfwCreateWindow; on failure glfwTerminate and return -1, else
\* glfwMakeContextCurrent and glfwSetKeyCallback.
GlfwCreateWindow ==
    /\ pc = "glfwCreateWindow"
    /\ \E ok \in BOOLEAN :
          IF ok
          THEN /\ glfw' = [glfw EXCEPT !.window = TRUE, !.keyCallback = TRUE]
               /\ pc' = "gladLoadGLLoader"
               /\ UNCHANGED <<stderr, returnValue>>
          ELSE /\ glfw' = [glfw EXCEPT !.failure = "glfwCreateWindow",
                                       !.terminated = TRUE]
               /\ stderr' = Append(stderr, "[ERRO] Falha ao criar janela GLFW")
               /\ returnValue' = <<-1>>
               /\ pc' = "returned"
    /\ UNCHANGED <<sprites, gl, drawLog, lastCall, prevDraw, locals, frame>>

\* Mutant of GladLoadGLLoader: the failure is reported but main goes on.
GladLoadGLLoaderGoesOn ==
    /\ pc = "gladLoadGLLoader"
    /\ \E ok \in BOOLEAN :
          IF ok
          THEN /\ gl' = [gl EXCEPT !.viewport = <<0, 0, SCREEN_WIDTH, SCREEN_HEIGHT>>]
               /\ UNCHANGED <<stderr, glfw>>
          ELSE /\ glfw' = [glfw EXCEPT !.failure = "gladLoadGLLoader"]
               /\ stderr' = Append(stderr, "[ERRO] Falha ao inicializar GLAD")
               /\ UNCHANGED gl
    /\ pc' = "CreateShaderProgram"
    /\ UNCHANGED <<sprites, drawLog, lastCall, prevDraw, locals, frame, returnValue>>

\* 6.2, 6.3: gladLoadGLLoader; on failure return -1, else glViewport.
GladLoadGLLoader ==
    /\ pc = "gladLoadGLLoader"
    /\ \E ok \in BOOLEAN :
          IF ok
          THEN /\ gl' = [gl EXCEPT !.viewport = <<0, 0, SCREEN_WIDTH, SCREEN_HEIGHT>>]
               /\ pc' = "CreateShaderProgram"
               /\ UNCHANGED <<stderr, returnValue, glfw>>
          ELSE /\ glfw' = [glfw EXCEPT !.failure = "gladLoadGLLoader"]
               /\ stderr' = Append(stderr, "[ERRO] Falha ao inicializar GLAD")
               /\ returnValue' = <<-1>>
               /\ pc' = "returned"
               /\ UNCHANGED gl
    /\ UNCHANGED <<sprites, drawLog, lastCall, prevDraw, locals, frame>>

\* 6.4: shaderProgram = CreateShaderProgram(vertexShaderSource, fragmentShaderSource)
MainCreateShaderProgram ==
    /\ pc = "CreateShaderProgram"
    /\ \E vsOK \in BOOLEAN, fsOK \in BOOLEAN, linkOK \in BOOLEAN :
          LET r == CreateShaderProgram(gl, vsOK, fsOK, linkOK)
          IN  /\ gl' = r.gl
              /\ locals' = [locals EXCEPT !.shaderProgram = r.ret]
              /\ stderr' = stderr \o r.err
    /\ pc' = "CreateQuadVAO"
    /\ UNCHANGED <<sprites, drawLog, lastCall, prevDraw, returnValue, glfw, frame>>

\* 6.5: quadVAO = CreateQuadVAO()
MainCreateQuadVAO ==
    /\ pc = "CreateQuadVAO"
    /\ LET r == CreateQuadVAO(gl)
       IN  /\ gl' = r.gl
           /\ locals' = [locals EXCEPT !.quadVAO = r.ret]
    /\ pc' = "loadTexture1"
    /\ UNCHANGED <<sprites, drawLog, lastCall, prevDraw, returnValue, stderr, glfw, frame>>

\* 6.6: tex1 = loadTexture(...); tex2 = loadTexture(...)
MainLoadTexture1 ==
    /\ pc = "loadTexture1"
    /\ \E data \in StbOutcomes :
          LET r == loadTexture(gl, data)
          IN  /\ gl' = r.gl
              /\ locals' = [locals EXCEPT !.tex1 = r.ret]
              /\ stderr' = stderr \o r.err
    /\ pc' = "loadTexture2"
    /\ UNCHANGED <<sprites, drawLog, lastCall, prevDraw, returnValue, glfw, frame>>

MainLoadTexture2 ==
    /\ pc = "loadTexture2"
    /\ \E data \in StbOutcomes :
          LET r == loadTexture(gl, data)
          IN  /\ gl' = r.gl
              /\ locals' = [locals EXCEPT !.tex2 = r.ret]
              /\ stderr' = stderr \o r.err
    /\ pc' = "sprite1"
    /\ UNCHANGED <<sprites, drawLog, lastCall, prevDraw, returnValue, glfw, frame>>

\* 6.7, Sprite 1: emplace_back, SetPosition(50, 50), SetScale(128, 128),
\* SetRotation(0)
MainSprite1 ==
    /\ pc = "sprite1"
    /\ sprites' = Append(sprites,
          SetRotation(
            SetScale(
              SetPosition(NewSprite(locals.shaderProgram, locals.quadVAO, locals.tex1),
                          F(50), F(50)),
              F(128), F(128)),
            0))
    /\ pc' = "sprite2"
    /\ UNCHANGED <<gl, drawLog, lastCall, prevDraw, returnValue, stderr, glfw, locals, frame>>

\* 6.7, Sprite 2: emplace_back, SetPosition(300, 200), SetScale(200, 100),
\* SetRotation(45)
MainSprite2 ==
    /\ pc = "sprite2"
    /\ sprites' = Append(sprites,
          SetRotation(
            SetScale(
              SetPosition(NewSprite(locals.shaderProgram, locals.quadVAO, locals.tex2),
                          F(300), F(200)),
              F(200), F(100)),
            45))
    /\ pc' = "projection"
    /\ UNCHANGED <<gl, drawLog, lastCall, prevDraw, returnValue, stderr, glfw, locals, frame>>

\* 6.8, 6.9: projection = glm::ortho(...); glEnable(GL_BLEND); glBlendFunc
MainProjection ==
    /\ pc = "projection"
    /\ locals' = [locals EXCEPT !.projection = Projection]
    /\ gl' = [gl EXCEPT !.blend = TRUE]
    /\ pc' = "while"
    /\ UNCHANGED <<sprites, drawLog, lastCall, prevDraw, returnValue, stderr, glfw, frame>>

\* 6.10: while (!glfwWindowShouldClose(window)).  Entering an iteration
\* starts a new record of what the iteration does.
LoopTest ==
    /\ pc = "while"
    /\ IF glfw.shouldClose
       THEN pc' = "cleanup" /\ UNCHANGED frame
       ELSE pc' = "glfwPollEvents" /\ frame' = [frame EXCEPT !.ops = <<>>, !.events = <<>>]
    /\ UNCHANGED <<sprites, gl, drawLog, lastCall, prevDraw, returnValue, stderr, glfw, locals>>

\* 6.10.1: glfwPollEvents runs key_callback on each pending key event.
PollEvents ==
    /\ pc = "glfwPollEvents"
    /\ \E events \in EventSeqs :
          /\ glfw' = [glfw EXCEPT !.shouldClose = Deliver(@, events)]
          /\ frame' = [frame EXCEPT !.ops = Append(@, Op("glfwPollEvents", 0)),
                                    !.events = events]
    /\ pc' = "glClear"
    /\ UNCHANGED <<sprites, gl, drawLog, lastCall, prevDraw, returnValue, stderr, locals>>

\* 6.10.2: glClearColor; glClear(GL_COLOR_BUFFER_BIT): the frame starts with
\* nothing drawn.  Then the for loop over sprites starts at the first one.
Clear ==
    /\ pc = "glClear"
    /\ drawLog' = <<>>
    /\ frame' = [frame EXCEPT !.ops = Append(@, Op("glClear", 0))]
    /\ locals' = [locals EXCEPT !.i = 1]
    /\ pc' = "for"
    /\ UNCHANGED <<sprites, gl, lastCall, prevDraw, returnValue, stderr, glfw>>

\* 6.10.3: for (auto& sprite : sprites) sprite.Draw(projection);
DrawSprite ==
    /\ pc = "for"
    /\ locals.i <= Len(sprites)
    /\ LET d == Draw(sprites[locals.i], locals.projection, gl)
       IN  /\ gl' = d.gl
           /\ drawLog' = Append(drawLog, d.call)
    /\ frame' = [frame EXCEPT !.ops = Append(@, Op("Draw", locals.i))]
    /\ locals' = [locals EXCEPT !.i = @ + 1]
    /\ UNCHANGED <<sprites, lastCall, prevDraw, pc, returnValue, stderr, glfw>>

EndFor ==
    /\ pc = "for"
    /\ locals.i > Len(sprites)
    /\ pc' = "glfwSwapBuffers"
    /\ UNCHANGED <<sprites, gl, drawLog, lastCall, prevDraw, returnValue, stderr, glfw,
                   locals, frame>>

\* 6.10.4: glfwSwapBuffers(window)
SwapBuffers ==
    /\ pc = "glfwSwapBuffers"
    /\ frame' = [frame EXCEPT !.ops = Append(@, Op("glfwSwapBuffers", 0)),
                              !.count = Min(@ + 1, MaxFrames)]
    /\ pc' = "while"
    /\ UNCHANGED <<sprites, gl, drawLog, lastCall, prevDraw, returnValue, stderr, glfw, locals>>

\* 6.11: glDeleteVertexArrays(1, &quadVAO); glDeleteProgram(shaderProgram);
\* glfwTerminate(); return 0
Cleanup ==
    /\ pc = "cleanup"
    /\ gl' = [gl EXCEPT !.deleted = @ \cup {<<"vertexArray", locals.quadVAO>>,
                                            <<"program", locals.shaderProgram>>}]
    /\ glfw' = [glfw EXCEPT !.terminated = TRUE]
    /\ returnValue' = <<0>>
    /\ pc' = "returned"
    /\ UNCHANGED <<sprites, drawLog, lastCall, prevDraw, stderr, locals, frame>>

Next ==
    \/ GlfwInit \/ GlfwCreateWindow \/ GladLoadGLLoader
    \/ MainCreateShaderProgram \/ MainCreateQuadVAO
    \/ MainLoadTexture1 \/ MainLoadTexture2
    \/ MainSprite1 \/ MainSprite2 \/ MainProjection
    \/ LoopTest \/ PollEvents \/ Clear \/ DrawSprite \/ EndFor \/ SwapBuffers
    \/ Cleanup

Spec == InitMain /\ [][Next]_vars

\* --------------------------------------------------- claims about main
Range(q) == {q[j] : j \in DOMAIN q}
DrawOps == {j \in DOMAIN frame.ops : frame.ops[j].op = "Draw"}
Cleared == \E j \in DOMAIN frame.ops : frame.ops[j].op = "glClear"
Linked(s) == s.shaderID \in gl.linked
HasEscPress(events) ==
    \E j \in DOMAIN events :
        events[j] = [key |-> "GLFW_KEY_ESCAPE", action |-> "GLFW_PRESS"]

\* What C7 says of the k-th draw call of a frame whatever the program's link
\* status: one call of 4 vertices as a triangle strip, issued with unit 0
\* active, the k-th sprite's texture bound to it and its quad bound.
C7_CallShape(k) ==
    LET c == drawLog[k]
        s == sprites[k]
    IN  /\ c.mode = "GL_TRIANGLE_STRIP" /\ c.first = 0 /\ c.count = 4
        /\ c.activeTexture = 0
        /\ c.texture = s.textureID
        /\ c.vertexArray = s.VAO
\* ... and of the program and the uniforms.
C7_CallProgram(k) ==
    LET c == drawLog[k]
        s == sprites[k]
    IN  /\ c.program = s.shaderID
        /\ c.uModel = PlacementMatrix(s)
        /\ c.uProjection = locals.projection
\* The bindings Draw leaves: texture still bound, no vertex array bound.
C7_AfterDraw(k) ==
    /\ gl.activeTexture = 0
    /\ gl.texBinding[0] = sprites[k].textureID
    /\ gl.vertexArray = 0

\* C7 as stated: every Draw issues exactly one draw call, with the sprite's
\* program current, its texture on unit 0, its quad bound and the uniforms
\* holding its placement matrix and the projection; Draw leaves the program
\* and the texture bound and vertex array 0.
C7_DrawUsesOwnProgramTextureMatrix ==
    /\ Cleared => Len(drawLog) = Cardinality(DrawOps)
    /\ \A k \in DOMAIN drawLog : C7_CallShape(k) /\ C7_CallProgram(k)
    /\ drawLog # <<>> =>
          /\ C7_AfterDraw(Len(drawLog))
          /\ gl.program = sprites[Len(drawLog)].shaderID

\* C7 as amended: the same, the program and the uniforms only when the
\* sprite's program was linked successfully; when the link failed the draw
\* call is issued all the same, with no program current and the uniforms
\* never set.
C7_DrawUsesOwnTextureAndLinkedProgram ==
    /\ Cleared => Len(drawLog) = Cardinality(DrawOps)
    /\ \A k \in DOMAIN drawLog :
          /\ C7_CallShape(k)
          /\ Linked(sprites[k]) => C7_CallProgram(k)
          /\ ~Linked(sprites[k]) =>
                /\ drawLog[k].program = 0
                /\ drawLog[k].uModel = ZeroMat
                /\ drawLog[k].uProjection = ZeroMat
    /\ drawLog # <<>> =>
          /\ C7_AfterDraw(Len(drawLog))
          /\ gl.program = IF Linked(sprites[Len(drawLog)])
                          THEN sprites[Len(drawLog)].shaderID ELSE 0
C7_Witness ==
    /\ pc = "glfwSwapBuffers"
    /\ Len(drawLog) = 2
    /\ Linked(sprites[1]) /\ Linked(sprites[2])
    /\ drawLog[1].texture # drawLog[2].texture
    /\ drawLog[1].uModel # drawLog[2].uModel
    /\ drawLog[2].uModel = PlacementMatrix(sprites[2])

\* C8: main returns -1 exactly when glfwInit, glfwCreateWindow or
\* gladLoadGLLoader fails, having printed that step's diagnostic and created
\* no program, texture, quad, sprite or frame; otherwise, failed shaders and
\* textures included (a diagnostic each, the handle still returned), it
\* reaches the render loop and returns 0 once the window is to close.
InitDiagnostic(step) ==
    CASE step = "glfwInit" -> "[ERRO] Falha ao inicializar GLFW"
      [] step = "glfwCreateWindow" -> "[ERRO] Falha ao criar janela GLFW"
      [] step = "gladLoadGLLoader" -> "[ERRO] Falha ao inicializar GLAD"
      [] OTHER -> ""
SetupPcs ==
    {"glfwInit", "glfwCreateWindow", "gladLoadGLLoader", "CreateShaderProgram",
     "CreateQuadVAO", "loadTexture1", "loadTexture2", "sprite1", "sprite2", "projection"}
C8_ExitStatus ==
    /\ pc # "returned" => returnValue = <<>> /\ glfw.failure = ""
    /\ pc = "returned" => returnValue \in {<<0>>, <<-1>>}
    /\ returnValue = <<-1>> <=> glfw.failure # ""
    /\ glfw.failure # "" =>
          /\ stderr = <<InitDiagnostic(glfw.failure)>>
          /\ gl.programs = {} /\ gl.textures = <<>> /\ gl.vaos = <<>>
          /\ sprites = <<>> /\ drawLog = <<>> /\ frame = NoFrame
    /\ returnValue = <<0>> => glfw.shouldClose /\ frame.count >= 1
    /\ (pc \notin SetupPcs /\ glfw.failure = "") =>
          /\ locals.shaderProgram \in gl.programs
          /\ {locals.tex1, locals.tex2} \subseteq DOMAIN gl.textures
          /\ Len(sprites) = 2
          /\ locals.shaderProgram \notin gl.linked
                <=> "[ERRO] Shader Program link failed" \in Range(stderr)
          /\ Cardinality({t \in DOMAIN gl.textures : gl.textures[t] = NoImage})
                = Cardinality({j \in DOMAIN stderr :
                                  stderr[j] = "[ERRO] Falha ao carregar textura"})
C8_Witness ==
    /\ pc = "returned"
    /\ returnValue = <<0>>
    /\ locals.shaderProgram \notin gl.linked
    /\ gl.textures[locals.tex1] = NoImage
    /\ gl.textures[locals.tex2] # NoImage

\* C9: with the vertex stage's flip (sampled coordinate (s, 1 - t)) and the
\* image uploaded row 0 first, the fragment at the bottom-left vertex
\* (attribute (0,0)) shows the image's bottom-left pixel, the one at the
\* top-right vertex (attribute (1,1)) its top-right pixel, and the quad's top
\* edge shows image row 0; for an unrotated sprite of positive scale that
\* edge is the upper one on screen.
C9_TextureOrientation ==
    \A k \in DOMAIN drawLog :
        LET c   == drawLog[k]
            img == gl.textures[sprites[k].textureID]
            top == FragGrid - 1
        IN  (c.fragments # <<>> /\ img # NoImage) =>
              /\ \A i \in {TL, BL, TR, BR} :
                    c.vertices[i].TexCoord
                       = <<quadVertices[i].tex[1], Unit - quadVertices[i].tex[2]>>
              /\ c.fragments[0][0].FragColor = <<img.height - 1, 0>>
              /\ c.fragments[top][top].FragColor = <<0, img.width - 1>>
              /\ \A a \in 0..top : c.fragments[a][top].FragColor[1] = 0
              /\ (sprites[k].rotation = 0 /\ sprites[k].scale[2] > 0 /\ FragGrid > 1) =>
                    \A a \in 0..top :
                        c.fragments[a][top].world[2] > c.fragments[a][0].world[2]
C9_Witness ==
    /\ Len(drawLog) = 2
    /\ drawLog[1].fragments # <<>>
    /\ gl.textures[sprites[1].textureID].height = MaxDim
    /\ gl.textures[sprites[1].textureID].width = MaxDim
    /\ drawLog[1].fragments[0][0].FragColor = <<MaxDim - 1, 0>>
    /\ drawLog[1].fragments[0][0].FragColor # drawLog[1].fragments[0][FragGrid - 1].FragColor

\* C10: an iteration of the render loop polls, clears, draws every sprite
\* once in insertion order and presents; the close flag is read only by the
\* loop test: an ESC press seen by a poll sets it, the iteration under way is
\* completed, no other starts, and main deletes the quad and the program,
\* terminates GLFW and returns, drawing nothing afterwards; nothing but an
\* ESC press changes the flag, and the loop is left only with the flag set.
FullIteration ==
    <<Op("glfwPollEvents", 0), Op("glClear", 0)>>
        \o [k \in 1..Len(sprites) |-> Op("Draw", k)]
        \o <<Op("glfwSwapBuffers", 0)>>
AfterPc(p) ==
    CASE p = "glfwPollEvents" -> {"glClear"}
      [] p = "glClear" -> {"for"}
      [] p = "for" -> {"for", "glfwSwapBuffers"}
      [] p = "glfwSwapBuffers" -> {"while"}
      [] p = "cleanup" -> {"returned"}
      [] OTHER -> {}
C10_RenderLoop ==
    /\ []( (frame.ops # <<>> /\ frame.ops[Len(frame.ops)].op = "glfwSwapBuffers") =>
              /\ frame.ops = FullIteration
              /\ Len(drawLog) = Len(sprites) )
    /\ []( (pc \in {"cleanup", "returned"} /\ glfw.failure = "") =>
              /\ glfw.shouldClose
              /\ HasEscPress(frame.events)
              /\ frame.ops = FullIteration )
    /\ []( returnValue = <<0>> =>
              /\ {<<"vertexArray", locals.quadVAO>>, <<"program", locals.shaderProgram>>}
                    \subseteq gl.deleted
              /\ glfw.terminated )
    /\ [][ /\ glfw.shouldClose' # glfw.shouldClose =>
                (pc = "glfwPollEvents" /\ glfw.shouldClose' /\ HasEscPress(frame'.events))
           /\ (pc = "glfwPollEvents" /\ HasEscPress(frame'.events)) => glfw.shouldClose'
           /\ pc = "while" =>
                pc' = IF glfw.shouldClose THEN "cleanup" ELSE "glfwPollEvents"
           /\ AfterPc(pc) # {} => pc' \in AfterPc(pc)
           /\ glfw.terminated => (drawLog' = drawLog /\ gl' = gl) ]_vars
C10_Witness ==
    /\ pc = "returned"
    /\ returnValue = <<0>>
    /\ frame.count = MaxFrames
    /\ Len(drawLog) = 2
    /\ frame.ops = FullIteration

=============================================================================
